---- MODULE Spec2Model ----
(***************************************************************************)
(* A model of socketioN's asyncio class-based namespaces                   *)
(* (asyncio_namespace.py) and of its Kafka client manager                  *)
(* (kafka_manager.py).                                                     *)
(*                                                                         *)
(* Three specifications share the module's variables:                      *)
(*   SpecDispatch  trigger_event of AsyncNamespace / AsyncClientNamespace  *)
(*   SpecFacade    the namespace-forwarding methods of both classes        *)
(*   SpecKafka     KafkaManager construction, _publish and _listen, with   *)
(*                 the PubSubManager base class (pubsub_manager.py, not    *)
(*                 part of the sources at hand) modelled from the          *)
(*                 specification document                                  *)
(***************************************************************************)
EXTENDS Naturals, Sequences, FiniteSets

VARIABLES
    \* ---- namespace instance (dispatch and facade) ----
    cls,        \* "AsyncNamespace" or "AsyncClientNamespace"
    attrs,      \* the instance's handler attributes: name -> "sync" | "coro"
    pc,         \* position of the trigger_event coroutine
    event,      \* event name of the current trigger_event call
    args,       \* positional arguments of the current call
    ret,        \* outcome of the current trigger_event call
    handlerOut, \* outcome the handler itself produced (history)
    cancelled,  \* the awaited handler was cancelled (history)
    invoked,    \* handler invocations made by the current call: <<name, args>>
    ownerCalls, \* calls made on self.server / self.client during the call
    namespace,  \* self.namespace, the namespace bound to the instance
    namespace0, \* the namespace bound at construction (history)
    request,    \* the facade call being served (history)
    ownerLog,   \* the calls that facade call made on self.server / self.client
    \* ---- Kafka client managers, one per server process ----
    kafka,      \* per process: the kafka package was imported (else None)
    ctorArgs,   \* per process: the arguments KafkaManager was constructed with
    mgr,        \* per process: the KafkaManager instance
    thread,     \* per process: state of the background consumer loop
    log,        \* the broker: every message written, in order, with its topic
    offset,     \* per process: position of self.consumer in the broker's log
    pulled,     \* per process: messages self.consumer has handed out (history)
    yielded,    \* per process: what _listen has yielded (history)
    emitted,    \* per process: the room of every emit it made (history)
    applied,    \* per process: broadcasts its consumer loop applied locally
    received    \* per client: the events delivered to it

dispatchVars ==
    <<attrs, pc, event, args, ret, handlerOut, cancelled, invoked, ownerCalls>>

facadeVars == <<namespace, namespace0, request, ownerLog>>

kafkaVars ==
    <<kafka, ctorArgs, mgr, thread, log, offset, pulled, yielded, emitted,
      applied, received>>

vars == <<cls, dispatchVars, facadeVars, kafkaVars>>

-----------------------------------------------------------------------------
(* Values *)

None == "None"

\* Payload values an application passes and handlers return.
Values == {None, "ack", "hi"}

\* Faults a handler can raise.
CancelledError == "CancelledError"
Exceptions == {CancelledError, "ValueError"}

Return(v) == [tag |-> "return", val |-> v]
Raise(e) == [tag |-> "raise", val |-> e]
NoOutcome == [tag |-> "none", val |-> None]

\* What a handler body can end with.
HandlerOutcomes == {Return(v) : v \in Values} \cup {Raise(e) : e \in Exceptions}

MaxArgs == 2

ArgLists == UNION {[1..n -> {"hi", "x"}] : n \in 0..MaxArgs}

Classes == {"AsyncNamespace", "AsyncClientNamespace"}

EventNames == {"message", "connect"}

HandlerNames == {"on_message", "on_connect"}

\* The handler tables a namespace subclass can define: any subset of the
\* on_* methods, each a plain function or a coroutine function.
HandlerTables ==
    UNION {[S -> {"sync", "coro"}] : S \in SUBSET HandlerNames}

hasattr(self, name) == name \in DOMAIN self

getattr(self, name) == self[name]

iscoroutinefunction(handler) == handler = "coro"

-----------------------------------------------------------------------------
(* trigger_event *)

\* Mutant of the lookup below: getattr without the hasattr guard.
AsyncNamespace_trigger_event_NoHasattr(self, ev, as) ==
    LET handler_name == "on_" \o ev
    IN  IF handler_name \notin DOMAIN self
        THEN [step |-> "done", out |-> Raise("AttributeError")]
        ELSE IF iscoroutinefunction(self[handler_name])
        THEN [step |-> "await", handler |-> handler_name, args |-> as]
        ELSE [step |-> "call", handler |-> handler_name, args |-> as]

\* Lines 33-36, 41: resolve the handler.  The result says what the coroutine
\* does next: finish at once with None (no such attribute), await the
\* coroutine handler, or call the plain handler.
AsyncNamespace_trigger_event(self, ev, as) ==
    LET handler_name == "on_" \o ev
    IN  IF hasattr(self, handler_name)
        THEN LET handler == getattr(self, handler_name)
             IN  IF iscoroutinefunction(handler)
                 THEN [step |-> "await", handler |-> handler_name, args |-> as]
                 ELSE [step |-> "call", handler |-> handler_name, args |-> as]
        ELSE [step |-> "done", out |-> Return(None)]

AsyncClientNamespace_trigger_event(self, ev, as) ==
    LET handler_name == "on_" \o ev
    IN  IF hasattr(self, handler_name)
        THEN LET handler == getattr(self, handler_name)
             IN  IF iscoroutinefunction(handler)
                 THEN [step |-> "await", handler |-> handler_name, args |-> as]
                 ELSE [step |-> "call", handler |-> handler_name, args |-> as]
        ELSE [step |-> "done", out |-> Return(None)]

\* Mutants of the await below: no except clause; an except clause that
\* catches every fault; the handler's value dropped.
AsyncNamespace_await_NoExcept(out) == out

AsyncNamespace_await_ExceptAll(out) ==
    IF out.tag = "raise" THEN Return(None) ELSE out

AsyncNamespace_await_DropsRet(out) ==
    IF out.tag = "raise" /\ out.val # CancelledError THEN out ELSE Return(None)

\* Lines 37-40, 43: the outcome of `await handler(*args)` under
\* try/except asyncio.CancelledError.
AsyncNamespace_await(out) ==
    IF out.tag = "raise" /\ out.val = CancelledError
    THEN Return(None)
    ELSE out

AsyncClientNamespace_await(out) ==
    IF out.tag = "raise" /\ out.val = CancelledError
    THEN Return(None)
    ELSE out

\* Lines 42-43: `ret = handler(*args); return ret` outside any try.
AsyncNamespace_call(out) == out

AsyncClientNamespace_call(out) == out

Dispatch(c, self, ev, as) ==
    IF c = "AsyncNamespace"
    THEN AsyncNamespace_trigger_event(self, ev, as)
    ELSE AsyncClientNamespace_trigger_event(self, ev, as)

Await(c, out) ==
    IF c = "AsyncNamespace" THEN AsyncNamespace_await(out)
    ELSE AsyncClientNamespace_await(out)

Call(c, out) ==
    IF c = "AsyncNamespace" THEN AsyncNamespace_call(out)
    ELSE AsyncClientNamespace_call(out)

\* The values the variables of a part hold in the specifications that do not
\* exercise that part.
DispatchIdle ==
    /\ attrs = <<>>
    /\ pc = "idle"
    /\ event = None
    /\ args = <<>>
    /\ ret = NoOutcome
    /\ handlerOut = NoOutcome
    /\ cancelled = FALSE
    /\ invoked = <<>>
    /\ ownerCalls = 0

FacadeIdle ==
    /\ namespace = "/"
    /\ namespace0 = "/"
    /\ request = [cls |-> None, method |-> None, pos |-> <<>>, kw |-> <<>>,
                  s_namespace |-> None]
    /\ ownerLog = <<>>

\* The server processes of the cluster and the manager slot of a process
\* that has not constructed its KafkaManager yet.
Procs == {"A", "B"}

NoManager ==
    [state |-> "none", error |-> None, steps |-> <<>>, channel |-> None,
     write_only |-> FALSE, kafka_url |-> <<>>, host_id |-> None]

NoArgs == [given |-> FALSE, url |-> <<>>, channel |-> None, write_only |-> FALSE]

\* The clients, the process each is connected to and the room each is in.
Clients == {"a1", "a2", "b1"}

conn == [c \in Clients |-> IF c = "b1" THEN "B" ELSE "A"]

roomOf == [c \in Clients |-> IF c = "a2" THEN "kitchen" ELSE "lobby"]

KafkaIdle ==
    /\ kafka = [p \in Procs |-> TRUE]
    /\ ctorArgs = [p \in Procs |-> NoArgs]
    /\ mgr = [p \in Procs |-> NoManager]
    /\ thread = [p \in Procs |-> "new"]
    /\ log = <<>>
    /\ offset = [p \in Procs |-> 0]
    /\ pulled = [p \in Procs |-> <<>>]
    /\ yielded = [p \in Procs |-> <<>>]
    /\ emitted = [p \in Procs |-> <<>>]
    /\ applied = [p \in Procs |-> 0]
    /\ received = [c \in Clients |-> <<>>]

InitDispatch ==
    /\ cls \in Classes
    /\ FacadeIdle
    /\ KafkaIdle
    /\ attrs \in HandlerTables
    /\ pc = "idle"
    /\ event = None
    /\ args = <<>>
    /\ ret = NoOutcome
    /\ handlerOut = NoOutcome
    /\ cancelled = FALSE
    /\ invoked = <<>>
    /\ ownerCalls = 0

\* The owner calls trigger_event(ev, *as).  A plain handler runs to its end
\* inside the call; a coroutine handler is started and awaited.  `emits` is
\* the number of calls the handler body makes on the owning server/client.
Trigger(ev, as, out, emits) ==
    /\ pc \in {"idle", "done"}
    /\ LET d == Dispatch(cls, attrs, ev, as)
       IN  /\ event' = ev
           /\ args' = as
           /\ cancelled' = FALSE
           /\ \/ /\ d.step = "done"
                 /\ invoked' = <<>>
                 /\ ownerCalls' = 0
                 /\ handlerOut' = NoOutcome
                 /\ ret' = d.out
                 /\ pc' = "done"
              \/ /\ d.step = "call"
                 /\ invoked' = <<<<d.handler, d.args>>>>
                 /\ ownerCalls' = emits
                 /\ handlerOut' = out
                 /\ ret' = Call(cls, out)
                 /\ pc' = "done"
              \/ /\ d.step = "await"
                 /\ invoked' = <<<<d.handler, d.args>>>>
                 /\ ownerCalls' = emits
                 /\ handlerOut' = NoOutcome
                 /\ ret' = NoOutcome
                 /\ pc' = "awaiting"
    /\ UNCHANGED <<cls, attrs, facadeVars, kafkaVars>>

\* The awaited coroutine handler runs to its end: it returns a value or
\* raises a fault of its own.
HandlerCompletes(out) ==
    /\ pc = "awaiting"
    /\ handlerOut' = out
    /\ ret' = Await(cls, out)
    /\ pc' = "done"
    /\ UNCHANGED <<cls, attrs, event, args, cancelled, invoked, ownerCalls, facadeVars, kafkaVars>>

\* The task is cancelled while the handler is suspended: CancelledError is
\* thrown into the handler at its suspension point and leaves it.
Cancel ==
    /\ pc = "awaiting"
    /\ cancelled' = TRUE
    /\ handlerOut' = Raise(CancelledError)
    /\ ret' = Await(cls, Raise(CancelledError))
    /\ pc' = "done"
    /\ UNCHANGED <<cls, attrs, event, args, invoked, ownerCalls, facadeVars, kafkaVars>>

NextDispatch ==
    \/ \E ev \in EventNames, as \in ArgLists, out \in HandlerOutcomes, emits \in 0..1 :
          Trigger(ev, as, out, emits)
    \/ \E out \in HandlerOutcomes : HandlerCompletes(out)
    \/ Cancel

SpecDispatch == InitDispatch /\ [][NextDispatch]_vars

-----------------------------------------------------------------------------
(* The namespace-forwarding methods *)

\* Python truth value of None or a string, and the `or` operator on them.
Truthy(v) == v /= None /\ v /= ""

Or(a, b) == IF Truthy(a) THEN a ELSE b

\* A call on the owner: positional arguments and keyword arguments.
OwnerCall(target, method, pos, kw) ==
    [target |-> target, method |-> method, pos |-> pos, kw |-> kw]

\* Mutant: the override is ignored and the bound namespace always passed.
AsyncNamespace_emit_IgnoresOverride(self_namespace, ev, data, room, skip_sid, s_namespace, callback) ==
    OwnerCall("server", "emit", <<ev>>,
              [data |-> data, room |-> room, skip_sid |-> skip_sid,
               namespace |-> self_namespace, callback |-> callback])

AsyncNamespace_emit(self_namespace, ev, data, room, skip_sid, s_namespace, callback) ==
    OwnerCall("server", "emit", <<ev>>,
              [data |-> data, room |-> room, skip_sid |-> skip_sid,
               namespace |-> Or(s_namespace, self_namespace),
               callback |-> callback])

AsyncNamespace_send(self_namespace, data, room, skip_sid, s_namespace, callback) ==
    OwnerCall("server", "send", <<data>>,
              [room |-> room, skip_sid |-> skip_sid,
               namespace |-> Or(s_namespace, self_namespace),
               callback |-> callback])

AsyncNamespace_close_room(self_namespace, room, s_namespace) ==
    OwnerCall("server", "close_room", <<room>>,
              [namespace |-> Or(s_namespace, self_namespace)])

AsyncNamespace_get_session(self_namespace, sid, s_namespace) ==
    OwnerCall("server", "get_session", <<sid>>,
              [namespace |-> Or(s_namespace, self_namespace)])

AsyncNamespace_save_session(self_namespace, sid, session, s_namespace) ==
    OwnerCall("server", "save_session", <<sid, session>>,
              [namespace |-> Or(s_namespace, self_namespace)])

AsyncNamespace_session(self_namespace, sid, s_namespace) ==
    OwnerCall("server", "session", <<sid>>,
              [namespace |-> Or(s_namespace, self_namespace)])

AsyncNamespace_disconnect(self_namespace, sid, s_namespace) ==
    OwnerCall("server", "disconnect", <<sid>>,
              [namespace |-> Or(s_namespace, self_namespace)])

AsyncClientNamespace_emit(self_namespace, ev, data, s_namespace, callback) ==
    OwnerCall("client", "emit", <<ev>>,
              [data |-> data,
               namespace |-> Or(s_namespace, self_namespace),
               callback |-> callback])

AsyncClientNamespace_send(self_namespace, data, s_namespace, callback) ==
    OwnerCall("client", "send", <<data>>,
              [namespace |-> Or(s_namespace, self_namespace),
               callback |-> callback])

AsyncClientNamespace_disconnect == OwnerCall("client", "disconnect", <<>>, <<>>)

\* The inputs of the facade calls.
Namespaces == {"/", "/chat"}
Overrides == {None, "", "/chat", "/admin"}
Datas == {None, "hi"}
Rooms == {None, "lobby"}
Sids == {"sid1", "sid2"}
SkipSids == {None, "sid1"}
Callbacks == {None, "cb"}
Sessions == {"s0", "s1"}

\* A facade call as the caller made it: the method, its positional
\* arguments, and its keyword arguments other than s_namespace.
Request(c, method, pos, kw, s_namespace) ==
    [cls |-> c, method |-> method, pos |-> pos, kw |-> kw,
     s_namespace |-> s_namespace]

InitFacade ==
    /\ cls \in Classes
    /\ DispatchIdle
    /\ KafkaIdle
    /\ namespace \in Namespaces
    /\ namespace0 = namespace
    /\ request = Request(None, None, <<>>, <<>>, None)
    /\ ownerLog = <<>>

\* Every facade method makes its owner call and leaves self.namespace alone.
Forward(req, call) ==
    /\ request' = req
    /\ ownerLog' = <<call>>
    /\ UNCHANGED <<cls, dispatchVars, namespace, namespace0, kafkaVars>>

ServerEmit(ev, data, room, skip_sid, s_namespace, callback) ==
    /\ cls = "AsyncNamespace"
    /\ Forward(Request(cls, "emit", <<ev>>,
                       [data |-> data, room |-> room, skip_sid |-> skip_sid,
                        callback |-> callback], s_namespace),
               AsyncNamespace_emit(namespace, ev, data, room, skip_sid,
                                   s_namespace, callback))

ServerSend(data, room, skip_sid, s_namespace, callback) ==
    /\ cls = "AsyncNamespace"
    /\ Forward(Request(cls, "send", <<data>>,
                       [room |-> room, skip_sid |-> skip_sid,
                        callback |-> callback], s_namespace),
               AsyncNamespace_send(namespace, data, room, skip_sid,
                                   s_namespace, callback))

ServerCloseRoom(room, s_namespace) ==
    /\ cls = "AsyncNamespace"
    /\ Forward(Request(cls, "close_room", <<room>>, <<>>, s_namespace),
               AsyncNamespace_close_room(namespace, room, s_namespace))

ServerGetSession(sid, s_namespace) ==
    /\ cls = "AsyncNamespace"
    /\ Forward(Request(cls, "get_session", <<sid>>, <<>>, s_namespace),
               AsyncNamespace_get_session(namespace, sid, s_namespace))

ServerSaveSession(sid, session, s_namespace) ==
    /\ cls = "AsyncNamespace"
    /\ Forward(Request(cls, "save_session", <<sid, session>>, <<>>, s_namespace),
               AsyncNamespace_save_session(namespace, sid, session, s_namespace))

ServerSession(sid, s_namespace) ==
    /\ cls = "AsyncNamespace"
    /\ Forward(Request(cls, "session", <<sid>>, <<>>, s_namespace),
               AsyncNamespace_session(namespace, sid, s_namespace))

ServerDisconnect(sid, s_namespace) ==
    /\ cls = "AsyncNamespace"
    /\ Forward(Request(cls, "disconnect", <<sid>>, <<>>, s_namespace),
               AsyncNamespace_disconnect(namespace, sid, s_namespace))

ClientEmit(ev, data, s_namespace, callback) ==
    /\ cls = "AsyncClientNamespace"
    /\ Forward(Request(cls, "emit", <<ev>>,
                       [data |-> data, callback |-> callback], s_namespace),
               AsyncClientNamespace_emit(namespace, ev, data, s_namespace, callback))

ClientSend(data, s_namespace, callback) ==
    /\ cls = "AsyncClientNamespace"
    /\ Forward(Request(cls, "send", <<data>>,
                       [callback |-> callback], s_namespace),
               AsyncClientNamespace_send(namespace, data, s_namespace, callback))

\* AsyncClientNamespace.disconnect takes no namespace at all.
ClientDisconnect ==
    /\ cls = "AsyncClientNamespace"
    /\ Forward(Request(cls, "disconnect", <<>>, <<>>, None),
               AsyncClientNamespace_disconnect)

NextFacade ==
    \/ \E ev \in EventNames, data \in Datas, room \in Rooms, skip_sid \in SkipSids,
          s_namespace \in Overrides, callback \in Callbacks :
          ServerEmit(ev, data, room, skip_sid, s_namespace, callback)
    \/ \E data \in Datas, room \in Rooms, skip_sid \in SkipSids,
          s_namespace \in Overrides, callback \in Callbacks :
          ServerSend(data, room, skip_sid, s_namespace, callback)
    \/ \E room \in Rooms \ {None}, s_namespace \in Overrides :
          ServerCloseRoom(room, s_namespace)
    \/ \E sid \in Sids, s_namespace \in Overrides : ServerGetSession(sid, s_namespace)
    \/ \E sid \in Sids, session \in Sessions, s_namespace \in Overrides :
          ServerSaveSession(sid, session, s_namespace)
    \/ \E sid \in Sids, s_namespace \in Overrides : ServerSession(sid, s_namespace)
    \/ \E sid \in Sids, s_namespace \in Overrides : ServerDisconnect(sid, s_namespace)
    \/ \E ev \in EventNames, data \in Datas, s_namespace \in Overrides,
          callback \in Callbacks :
          ClientEmit(ev, data, s_namespace, callback)
    \/ \E data \in Datas, s_namespace \in Overrides, callback \in Callbacks :
          ClientSend(data, s_namespace, callback)
    \/ ClientDisconnect

SpecFacade == InitFacade /\ [][NextFacade]_vars

-----------------------------------------------------------------------------
(* KafkaManager *)

MaxLog == 3

\* Strings that the code slices are sequences of characters.
KafkaScheme == <<"k", "a", "f", "k", "a", ":", "/", "/">>

DefaultBroker == <<"l", "o", "c", "a", "l", "h", "o", "s", "t", ":", "9", "0", "9", "2">>

\* The inputs of the constructor.
Urls == {KafkaScheme, KafkaScheme \o <<"h", ":", "1">>}
Channels == {"socketioN", "alt"}
EmitRooms == {"lobby", "kitchen"}

\* pickle: a pickled message is a frame opened by the protocol marker and
\* closed by the stop opcode; pickle.loads of anything else raises.
PROTO == "\\x80"
STOP == "."

pickle_dumps(data) ==
    <<PROTO, data.method, data.namespace, data.room, data.data, data.host_id, STOP>>

pickle_loads(bytes) ==
    IF Len(bytes) = 7 /\ bytes[1] = PROTO /\ bytes[7] = STOP
    THEN Return([method |-> bytes[2], namespace |-> bytes[3], room |-> bytes[4],
                 data |-> bytes[5], host_id |-> bytes[6]])
    ELSE Raise("UnpicklingError")

\* Bytes that are no pickle.
Garbage == <<"garbage">>

\* PubSubManager.__init__(channel, write_only): the base coordinator keeps
\* the channel name and the mode, and tags the process with its own id.
PubSubManager_init(host, channel, write_only) ==
    [channel |-> channel, write_only |-> write_only, host_id |-> host]

\* Mutants of the constructor below: the import guard placed after the base
\* class's initialisation; write_only not handed to the base class.
KafkaManager_init_GuardAfterSuper(kafka_module, host, url, channel, write_only) ==
    LET base == PubSubManager_init(host, channel, write_only)
        kafka_url == IF url /= KafkaScheme THEN SubSeq(url, 9, Len(url))
                     ELSE DefaultBroker
    IN  IF ~kafka_module
        THEN [state |-> "failed", error |-> "RuntimeError",
              steps |-> <<"PubSubManager.__init__">>,
              channel |-> base.channel, write_only |-> base.write_only,
              kafka_url |-> <<>>, host_id |-> base.host_id]
        ELSE [state |-> "ready", error |-> None,
              steps |-> <<"PubSubManager.__init__", "KafkaProducer", "KafkaConsumer">>,
              channel |-> base.channel, write_only |-> base.write_only,
              kafka_url |-> kafka_url, host_id |-> base.host_id]

KafkaManager_init_DropsWriteOnly(kafka_module, host, url, channel, write_only) ==
    IF ~kafka_module
    THEN [NoManager EXCEPT !.state = "failed", !.error = "RuntimeError"]
    ELSE LET base == PubSubManager_init(host, channel, FALSE)
             kafka_url == IF url /= KafkaScheme THEN SubSeq(url, 9, Len(url))
                          ELSE DefaultBroker
         IN  [state |-> "ready", error |-> None,
              steps |-> <<"PubSubManager.__init__", "KafkaProducer", "KafkaConsumer">>,
              channel |-> base.channel, write_only |-> base.write_only,
              kafka_url |-> kafka_url, host_id |-> base.host_id]

\* Lines 37-50: KafkaManager.__init__.  `steps` lists what the constructor
\* did, in order: the base class's initialisation, then the producer and
\* the consumer, each of which connects to the broker at kafka_url.
KafkaManager_init(kafka_module, host, url, channel, write_only) ==
    IF ~kafka_module
    THEN [NoManager EXCEPT !.state = "failed", !.error = "RuntimeError"]
    ELSE LET base == PubSubManager_init(host, channel, write_only)
             kafka_url == IF url /= KafkaScheme THEN SubSeq(url, 9, Len(url))
                          ELSE DefaultBroker
         IN  [state |-> "ready", error |-> None,
              steps |-> <<"PubSubManager.__init__", "KafkaProducer", "KafkaConsumer">>,
              channel |-> base.channel, write_only |-> base.write_only,
              kafka_url |-> kafka_url, host_id |-> base.host_id]

\* Mutant of _publish below: the origin tag is not part of what is sent.
KafkaManager_publish_DropsOrigin(self, data, brokerLog) ==
    Append(brokerLog,
           [topic |-> self.channel,
            value |-> pickle_dumps([data EXCEPT !.host_id = None])])

\* Lines 52-54: _publish sends the pickled message on the channel and
\* flushes, so the broker has it when the call returns.
KafkaManager_publish(self, data, brokerLog) ==
    Append(brokerLog, [topic |-> self.channel, value |-> pickle_dumps(data)])

\* Lines 56-58: _kafka_listen hands on every message of the consumer.
KafkaManager_kafka_listen(brokerLog, pos) == brokerLog[pos + 1]

\* Mutant of _listen below: the topic of the message is not looked at.
KafkaManager_listen_NoTopicFilter(self, message) ==
    LET loaded == pickle_loads(message.value)
    IN  IF loaded.tag = "return"
        THEN [act |-> "yield", val |-> loaded.val]
        ELSE [act |-> "raise", val |-> loaded.val]

\* Lines 60-63: one turn of _listen's loop on a message of the consumer.  A
\* message of the channel is unpickled and yielded, and a fault of
\* pickle.loads leaves the generator; any other message is passed over.
KafkaManager_listen(self, message) ==
    IF message.topic = self.channel
    THEN LET loaded == pickle_loads(message.value)
         IN  IF loaded.tag = "return"
             THEN [act |-> "yield", val |-> loaded.val]
             ELSE [act |-> "raise", val |-> loaded.val]
    ELSE [act |-> "skip", val |-> None]

\* The clients of process p in a room, and the delivery of an event to them.
LocalClients(p, room) == {c \in Clients : conn[c] = p /\ roomOf[c] = room}

Deliver(rcv, p, room, ev) ==
    [c \in Clients |-> IF c \in LocalClients(p, room) THEN Append(rcv[c], ev)
                       ELSE rcv[c]]

\* The consumer loop of the base coordinator on a message _listen yielded:
\* a broadcast of this very process was applied when it was emitted and is
\* passed over; any other emit is applied to the local clients of its room.
PubSubManager_applies(self, message) ==
    message.method = "emit" /\ message.host_id /= self.host_id

InitKafka ==
    /\ cls = "AsyncNamespace"
    /\ DispatchIdle
    /\ FacadeIdle
    /\ kafka \in [Procs -> BOOLEAN]
    /\ ctorArgs = [p \in Procs |-> NoArgs]
    /\ mgr = [p \in Procs |-> NoManager]
    /\ thread = [p \in Procs |-> "new"]
    /\ log = <<>>
    /\ offset = [p \in Procs |-> 0]
    /\ pulled = [p \in Procs |-> <<>>]
    /\ yielded = [p \in Procs |-> <<>>]
    /\ emitted = [p \in Procs |-> <<>>]
    /\ applied = [p \in Procs |-> 0]
    /\ received = [c \in Clients |-> <<>>]

\* Process p constructs its manager.  The consumer it creates hands out the
\* broker's messages in order, from the first.
Construct(p, url, channel, write_only) ==
    /\ mgr[p].state = "none"
    /\ ctorArgs' = [ctorArgs EXCEPT ![p] =
           [given |-> TRUE, url |-> url, channel |-> channel, write_only |-> write_only]]
    /\ mgr' = [mgr EXCEPT ![p] = KafkaManager_init(kafka[p], p, url, channel, write_only)]
    /\ UNCHANGED <<cls, dispatchVars, facadeVars, kafka, thread, log, offset,
                   pulled, yielded, emitted, applied, received>>

\* The server initialises the manager: unless it is write-only, the base
\* coordinator starts the background consumer loop.
Initialize(p) ==
    /\ mgr[p].state = "ready"
    /\ thread[p] = "new"
    /\ thread' = [thread EXCEPT ![p] = IF mgr[p].write_only THEN "off" ELSE "running"]
    /\ UNCHANGED <<cls, dispatchVars, facadeVars, kafka, ctorArgs, mgr, log, offset,
                   pulled, yielded, emitted, applied, received>>

\* Process p emits to a room: the base coordinator serves its own clients of
\* the room in process, then publishes the broadcast tagged with its id.
\* The payload <<p, n>> of the n-th emit of p identifies the event.
Emit(p, room) ==
    /\ mgr[p].state = "ready"
    /\ Len(log) < MaxLog
    /\ LET n == Len(emitted[p]) + 1
           data == [method |-> "emit", namespace |-> "/", room |-> room,
                    data |-> <<p, n>>, host_id |-> mgr[p].host_id]
       IN  /\ received' = Deliver(received, p, room, <<p, n>>)
           /\ log' = KafkaManager_publish(mgr[p], data, log)
    /\ emitted' = [emitted EXCEPT ![p] = Append(@, room)]
    /\ UNCHANGED <<cls, dispatchVars, facadeVars, kafka, ctorArgs, mgr, thread,
                   offset, pulled, yielded, applied>>

\* Some other producer writes bytes that are no pickle to a topic.
InjectMalformed(topic) ==
    /\ Len(log) < MaxLog
    /\ log' = Append(log, [topic |-> topic, value |-> Garbage])
    /\ UNCHANGED <<cls, dispatchVars, facadeVars, kafka, ctorArgs, mgr, thread,
                   offset, pulled, yielded, emitted, applied, received>>

\* One turn of process p's consumer loop: the next message of the consumer
\* goes through _listen, and what _listen yields is applied by the base
\* coordinator.  A fault leaving _listen ends the generator and the loop.
ListenStep(p) ==
    /\ thread[p] = "running"
    /\ offset[p] < Len(log)
    /\ LET message == KafkaManager_kafka_listen(log, offset[p])
           turn == KafkaManager_listen(mgr[p], message)
       IN  /\ offset' = [offset EXCEPT ![p] = @ + 1]
           /\ pulled' = [pulled EXCEPT ![p] = Append(@, message)]
           /\ \/ /\ turn.act = "skip"
                 /\ UNCHANGED <<thread, yielded, applied, received>>
              \/ /\ turn.act = "raise"
                 /\ thread' = [thread EXCEPT ![p] = "crashed"]
                 /\ UNCHANGED <<yielded, applied, received>>
              \/ /\ turn.act = "yield"
                 /\ yielded' = [yielded EXCEPT ![p] = Append(@, turn.val)]
                 /\ IF PubSubManager_applies(mgr[p], turn.val)
                    THEN /\ applied' = [applied EXCEPT ![p] = @ + 1]
                         /\ received' = Deliver(received, p, turn.val.room,
                                                turn.val.data)
                    ELSE UNCHANGED <<applied, received>>
                 /\ UNCHANGED thread
    /\ UNCHANGED <<cls, dispatchVars, facadeVars, kafka, ctorArgs, mgr, log, emitted>>

NextKafka ==
    \/ \E p \in Procs, url \in Urls, channel \in Channels, write_only \in BOOLEAN :
          Construct(p, url, channel, write_only)
    \/ \E p \in Procs : Initialize(p)
    \/ \E p \in Procs, room \in EmitRooms : Emit(p, room)
    \/ \E topic \in Channels : InjectMalformed(topic)
    \/ \E p \in Procs : ListenStep(p)

SpecKafka == InitKafka /\ [][NextKafka]_vars

-----------------------------------------------------------------------------
(* Properties of trigger_event, checked under SpecDispatch *)

\* C1: when the instance has no attribute 'on_' + event, trigger_event
\* returns None, invokes no handler and makes no call on the owning
\* server/client, whatever the arguments.
C1_NoHandlerIsNoOp ==
    (pc = "done" /\ ~hasattr(attrs, "on_" \o event)) =>
        /\ ret = Return(None)
        /\ invoked = <<>>
        /\ ownerCalls = 0

\* An unhandled event with two arguments, on an instance that does define
\* another handler, has been dispatched.
C1_Witness ==
    /\ pc = "done"
    /\ event = "message"
    /\ Len(args) = 2
    /\ DOMAIN attrs = {"on_connect"}
    /\ ret = Return(None)

\* C2: a coroutine handler cancelled while trigger_event awaits it makes
\* trigger_event complete with None; the cancellation is not propagated.
C2_CancelledGivesNone ==
    (pc = "done" /\ cancelled) => ret = Return(None)

\* A coroutine handler was started, suspended, and cancelled.
C2_Witness ==
    /\ pc = "done"
    /\ cancelled
    /\ hasattr(attrs, "on_" \o event)
    /\ iscoroutinefunction(getattr(attrs, "on_" \o event))
    /\ handlerOut = Raise(CancelledError)
    /\ Len(invoked) = 1

\* C3: a handler that completes normally was invoked exactly once, with the
\* arguments in the order given, and trigger_event's result is the handler's
\* return value unchanged, for plain and for coroutine handlers.
C3_ReturnValueVerbatim ==
    (pc = "done" /\ handlerOut.tag = "return") =>
        /\ ret = handlerOut
        /\ invoked = <<<<"on_" \o event, args>>>>

\* A coroutine on_message was awaited and trigger_event("message", "hi")
\* yielded its "ack".
C3_Witness ==
    /\ pc = "done"
    /\ event = "message"
    /\ args = <<"hi">>
    /\ hasattr(attrs, "on_message")
    /\ iscoroutinefunction(getattr(attrs, "on_message"))
    /\ handlerOut = Return("ack")
    /\ ret = Return("ack")

\* C4: a fault other than cancellation raised in a handler reaches the
\* caller of trigger_event; only a cancellation is ever turned into a
\* None result.
C4_FaultsPropagate ==
    (pc = "done" /\ handlerOut.tag = "raise") =>
        /\ handlerOut.val /= CancelledError => ret = handlerOut
        /\ ret.tag = "return" => (handlerOut.val = CancelledError /\ ret.val = None)

\* A coroutine handler raised ValueError and trigger_event raised it too.
C4_Witness ==
    /\ pc = "done"
    /\ hasattr(attrs, "on_" \o event)
    /\ iscoroutinefunction(getattr(attrs, "on_" \o event))
    /\ handlerOut = Raise("ValueError")
    /\ ret = Raise("ValueError")

-----------------------------------------------------------------------------
(* Properties of the forwarding methods, checked under SpecFacade *)

NamespaceTaking(req) ==
    /\ req.method /= None
    /\ ~(req.cls = "AsyncClientNamespace" /\ req.method = "disconnect")

\* The call a namespace-taking facade method has to make, given the
\* namespace it has to pass.
Forwarded(req, ns) ==
    /\ Len(ownerLog) = 1
    /\ ownerLog[1].target = (IF req.cls = "AsyncNamespace" THEN "server" ELSE "client")
    /\ ownerLog[1].method = req.method
    /\ ownerLog[1].pos = req.pos
    /\ DOMAIN ownerLog[1].kw = {k \in {"data", "room", "skip_sid", "callback"} :
                                   k \in DOMAIN req.kw} \cup {"namespace"}
    /\ \A k \in DOMAIN req.kw : ownerLog[1].kw[k] = req.kw[k]
    /\ ownerLog[1].kw.namespace = ns
    /\ namespace = namespace0

-----------------------------------------------------------------------------
(* Properties of KafkaManager, checked under SpecKafka *)

OnChannel(p, m) == m.topic = mgr[p].channel

Decodable(m) == pickle_loads(m.value).tag = "return"

Decoded(msgs) == [i \in 1..Len(msgs) |-> pickle_loads(msgs[i].value).val]

\* The consumer loop of p has nothing left it can do: it is waiting for the
\* next message of the broker, or its generator has ended.
Settled(p) ==
    \/ thread[p] = "crashed"
    \/ thread[p] = "running" /\ offset[p] = Len(log)

\* C5: a message of the channel that fails to decode is skipped, never
\* fatal: when the channel carries a malformed message between two
\* well-formed ones, _listen yields both well-formed messages once the loop
\* has caught up with the broker.
C5_MalformedIsSkipped ==
    \A p \in Procs :
        \A i \in DOMAIN log, j \in DOMAIN log, k \in DOMAIN log :
            ( /\ Settled(p)
              /\ i < j /\ j < k
              /\ OnChannel(p, log[i]) /\ Decodable(log[i])
              /\ OnChannel(p, log[j]) /\ ~Decodable(log[j])
              /\ OnChannel(p, log[k]) /\ Decodable(log[k]) )
            => /\ \E a \in DOMAIN yielded[p] :
                     Return(yielded[p][a]) = pickle_loads(log[i].value)
               /\ \E b \in DOMAIN yielded[p] :
                     Return(yielded[p][b]) = pickle_loads(log[k].value)

\* C6: a manager constructed with write_only = true never starts the
\* consumer loop, pulls and yields nothing, applies no received broadcast,
\* and each of its publications is in the broker's log; so a manager whose
\* loop runs was constructed with write_only = false.
PublishedBy(p) ==
    Cardinality({i \in DOMAIN log :
        /\ log[i].topic = ctorArgs[p].channel
        /\ Decodable(log[i])
        /\ pickle_loads(log[i].value).val.host_id = p})

C6_WriteOnlyNeverConsumes ==
    \A p \in Procs :
        (ctorArgs[p].given /\ mgr[p].state = "ready") =>
            /\ ctorArgs[p].write_only =>
                  /\ thread[p] \in {"new", "off"}
                  /\ offset[p] = 0
                  /\ pulled[p] = <<>>
                  /\ yielded[p] = <<>>
                  /\ applied[p] = 0
            /\ PublishedBy(p) = Len(emitted[p])

\* A write-only manager has been initialised and has published, with its
\* own channel carrying a broadcast it could have consumed, while the other
\* process consumed and applied what it published.
C6_Witness ==
    \E p \in Procs, q \in Procs :
        /\ p /= q
        /\ ctorArgs[p].write_only
        /\ thread[p] = "off"
        /\ Len(emitted[p]) >= 1
        /\ \E i \in DOMAIN log : log[i].topic = mgr[p].channel
        /\ applied[q] >= 1

Count(seq, e) == Cardinality({i \in DOMAIN seq : seq[i] = e})

C9_YieldedIsChannelSubsequence ==
    \A p \in Procs :
        LET mine == SelectSeq(pulled[p], LAMBDA m : OnChannel(p, m))
            good == SelectSeq(mine, Decodable)
        IN  /\ yielded[p] = Decoded(good)
            /\ Len(mine) /= Len(good) =>
                  /\ thread[p] = "crashed"
                  /\ Len(mine) = Len(good) + 1
                  /\ ~Decodable(pulled[p][Len(pulled[p])])

\* A consumer has pulled a message of another topic between two messages
\* of its channel and yielded exactly the two.
C9_Witness ==
    \E p \in Procs :
        /\ Len(pulled[p]) = 3
        /\ OnChannel(p, pulled[p][1])
        /\ ~OnChannel(p, pulled[p][2])
        /\ OnChannel(p, pulled[p][3])
        /\ Len(yielded[p]) = 2

\* C10: without the kafka package the constructor fails at once with an
\* error, whatever its arguments: the base coordinator is not initialised
\* and neither producer nor consumer is created, so no connection is tried.
C10_MissingLibraryFailsFast ==
    \A p \in Procs :
        (ctorArgs[p].given /\ ~kafka[p]) =>
            /\ mgr[p].state = "failed"
            /\ mgr[p].error = "RuntimeError"
            /\ mgr[p].steps = <<>>
            /\ thread[p] = "new"
            /\ emitted[p] = <<>>

\* A process without the package tried to construct a write-only manager
\* for a named broker while the other process, with the package, has one.
C10_Witness ==
    \E p \in Procs, q \in Procs :
        /\ ~kafka[p]
        /\ ctorArgs[p].given
        /\ ctorArgs[p].write_only
        /\ ctorArgs[p].url /= KafkaScheme
        /\ mgr[p].state = "failed"
        /\ mgr[q].state = "ready"

====
